---- MODULE Spec2Model ----
(***************************************************************************)
(* A state-machine model of the Halo <-> Xero finance widget server.       *)
(*                                                                         *)
(* src/unnamed/part_001 holds two revisions of the server:                 *)
(*   revision "A"  (lines 1-358):   HMAC check with timingSafeEqual, a     *)
(*                 module-level tenantId, ensureTenantId, contactId keys;  *)
(*   revision "B"  (lines 361-783): HMAC check with ===, area-only keys,   *)
(*                 voided-document filter, PDF / Excel export routes.      *)
(* The variable rev says which revision is running; it never changes.      *)
(*                                                                         *)
(* JavaScript values are modelled as follows.  A query parameter is a      *)
(* string, "" standing for an absent or empty parameter (the code tests    *)
(* every parameter for truthiness only).  A signature string is a          *)
(* sequence of bits, <<>> standing for the absent / empty string.  Tokens  *)
(* issued by the upstream identity service are numbered; 0 is the empty    *)
(* string.                                                                 *)
(***************************************************************************)
EXTENDS Integers, Sequences, FiniteSets, TLC

(* ------------------------------ bounds -------------------------------- *)

\* Length of a base64 digest in the model (44 characters in reality).
SigLen == 2

\* How many tokens the identity service issues in a run.
MaxIssue == 2

\* How many authorizations (consents) it grants in a run.
MaxAuth == 1

\* The clock advances in steps of TickSeconds, MaxTicks times.
TickSeconds == 60

MaxTicks == 2

\* The longest contact name tried, in characters.
MaxName == 3

(* --------------------------- value domains ---------------------------- *)

Revs == {"A", "B"}

\* process.env.HMAC_SECRET: "" is an unset (or empty) variable.
Secrets == {"", "k1", "k2"}

AgentIds == {"a1", "a2"}

Bit == {0, 1}

\* All bit strings of length n.
BitStrings(n) == [1..n -> Bit]

\* What a caller may send as a signature: nothing, or a string of any
\* length up to one more than a digest.
Received == UNION {BitStrings(n) : n \in 0..(SigLen + 1)}

Pow2(n) == IF n = 0 THEN 1 ELSE 2 ^ n

\* The number v written as SigLen bits, lowest bit first.
ToBits(v) == [i \in 1..SigLen |-> (v \div Pow2(i - 1)) % 2]

SecretCode(s) == CASE s = "k1" -> 0 [] s = "k2" -> 1 [] OTHER -> 2

AgentCode(a) == CASE a = "a1" -> 0 [] a = "a2" -> 1 [] OTHER -> 2

\* crypto.createHmac("sha256", secret).update(msg).digest("base64"):
\* a keyed digest of fixed length; distinct (secret, msg) pairs of the
\* model's domains get distinct digests.
Hmac(secret, msg) == ToBits((2 * SecretCode(secret) + AgentCode(msg) + 1) % Pow2(SigLen))

\* JavaScript a || b on strings.
Or(a, b) == IF a # "" THEN a ELSE b

\* JavaScript a || b on signature strings.
OrSig(a, b) == IF a # <<>> THEN a ELSE b

\* crypto.timingSafeEqual on two buffers: a RangeError when the lengths
\* differ, otherwise byte-wise equality.
timingSafeEqual(a, b) ==
  [threw |-> Len(a) # Len(b),
   eq    |-> Len(a) = Len(b) /\ \A i \in 1..Len(a) : a[i] = b[i]]

(* ------------------------ validateHaloHmac ---------------------------- *)

\* The result object.  threw = TRUE stands for an exception leaving
\* validateHaloHmac instead of a result.
HmacResult(valid, reason, canonical, received, expected, agentId, hasSecret, threw) ==
  [valid |-> valid, reason |-> reason, canonical |-> canonical,
   received |-> received, expected |-> expected, agentId |-> agentId,
   hasSecret |-> hasSecret, threw |-> threw]

\* A comparison that checks the lengths and nothing else.
CompareLengthOnly(received, expected) ==
  [threw |-> FALSE, eq |-> Len(received) = Len(expected)]

\* A comparison without the length guard.
CompareUnguarded(received, expected) == timingSafeEqual(received, expected)

\* Revision A: the comparison, with its length guard.
CompareA(received, expected) ==
  IF Len(received) # Len(expected) THEN [threw |-> FALSE, eq |-> FALSE]
  ELSE timingSafeEqual(received, expected)

\* Revision B: expected === received.
CompareB(received, expected) == expected = received

\* A secret check that lets the unset secret through.
HasSecretAlways(sec) == TRUE

\* !!HMAC_SECRET / !secret
HasSecret(sec) == sec # ""

\* A signed payload that covers the area as well.
CanonicalWithArea(agent, q) == IF q.area = "" THEN agent ELSE "a1|area"

\* const canonical = agentId: the signed payload is the agent identifier.
Canonical(agent, q) == agent

validateHaloHmacA(sec, q) ==
  LET agentId  == Or(q.agentId, q.agentid)
      received == q.hmac
      hasSecret == HasSecret(sec)
  IN  IF ~hasSecret
        THEN HmacResult(FALSE, "Missing HMAC secret", "", <<>>, <<>>, agentId, FALSE, FALSE)
      ELSE IF received = <<>> \/ agentId = ""
        THEN HmacResult(FALSE, "Missing HMAC param or agentId", "", <<>>, <<>>,
                        agentId, TRUE, FALSE)
      ELSE LET canonical == Canonical(agentId, q)
               expected  == Hmac(sec, canonical)
               cmp       == CompareA(received, expected)
           IN  HmacResult(cmp.eq, "", canonical, received, expected, agentId, TRUE,
                          cmp.threw)

validateHaloHmacB(sec, q) ==
  LET received == OrSig(q.hmac, q.HMAC)
      agent    == Or(q.agentId, q.agentid)
  IN  IF ~HasSecret(sec)
        THEN HmacResult(FALSE, "Missing HMAC secret", "", <<>>, <<>>, "", FALSE, FALSE)
      ELSE IF received = <<>>
        THEN HmacResult(FALSE, "Missing HMAC", "", <<>>, <<>>, "", TRUE, FALSE)
      ELSE IF agent = ""
        THEN HmacResult(FALSE, "Missing agentId", "", <<>>, <<>>, "", TRUE, FALSE)
      ELSE LET canonical == Canonical(agent, q)
               expected  == Hmac(sec, canonical)
           IN  HmacResult(CompareB(received, expected), "", canonical, received,
                          expected, agent, TRUE, FALSE)

validateHaloHmac(r, sec, q) ==
  IF r = "A" THEN validateHaloHmacA(sec, q) ELSE validateHaloHmacB(sec, q)

(* --------------------------- the Credential --------------------------- *)

\* A refresh token: the authorization (consent) it descends from and its
\* number.  NoRT is the empty string.
RT(a, n) == [auth |-> a, n |-> n]

NoRT == RT(0, 0)

Credential(at, rt, tid, tname) ==
  [access_token |-> at, refresh_token |-> rt, tenantId |-> tid, tenantName |-> tname]

\* The tenants the upstream /connections listing may return.
Tenant(id, name) == [tenantId |-> id, tenantName |-> name]

TenantLists == { <<>>, <<Tenant("t1", "Org One")>>,
                 <<Tenant("t2", "Org Two"), Tenant("t1", "Org One")>> }

\* tokens.json: absent, unparsable, or a document written by saveTokens.
DiskFile(exists, ok, doc) == [exists |-> exists, ok |-> ok, doc |-> doc]

NoCredential == Credential(0, NoRT, "", "")

NoFile == DiskFile(FALSE, FALSE, NoCredential)

\* Token and authorization number 1 are those of an earlier run, whose
\* document tokens.json may hold; this run's are numbered from 2.
PriorIssue == 1

\* The documents a previous run may have left behind.
StoredDocs == { Credential(PriorIssue, RT(PriorIssue, PriorIssue), "t1", "Org One"),
                Credential(PriorIssue, RT(PriorIssue, PriorIssue), "", "") }

StartFiles == {NoFile, DiskFile(TRUE, FALSE, NoCredential)}
                \cup {DiskFile(TRUE, TRUE, d) : d \in StoredDocs}

\* The properties of the tokens object, in the order they were created.
CredentialKeys == <<"access_token", "refresh_token", "tenantId", "tenantName">>

\* JSON.stringify(tokens): the text, as the sequence of its members
\* (name and value) in property order.
JSONstringify(tok) ==
  [i \in 1..Len(CredentialKeys) |-> <<CredentialKeys[i], tok[CredentialKeys[i]]>>]

\* JSON.parse(text): the object with the text's members; of two members
\* with one name the later wins.
JSONparse(text) ==
  [k \in {text[i][1] : i \in DOMAIN text} |->
     LET last == CHOOSE i \in DOMAIN text :
                   /\ text[i][1] = k
                   /\ \A j \in DOMAIN text : text[j][1] = k => j <= i
     IN  text[last][2]]

\* A merge in which the first object's properties win.
SpreadUnder(a, b) ==
  [k \in DOMAIN a \cup DOMAIN b |-> IF k \in DOMAIN a THEN a[k] ELSE b[k]]

\* { ...a, ...b }: b's properties over a's.
Spread(a, b) ==
  [k \in DOMAIN a \cup DOMAIN b |-> IF k \in DOMAIN b THEN b[k] ELSE a[k]]

\* The module-level tokens object after the startup load.
\* Revision A merges the stored document over the defaults (whose tenantId
\* is the TENANT_ID variable); revision B replaces the defaults.
LoadTokens(r, env, file) ==
  LET defaults == IF r = "A" THEN Credential(0, NoRT, env, "") ELSE NoCredential
  IN  IF file.exists /\ file.ok
        THEN (IF r = "A" THEN Spread(defaults, file.doc) ELSE file.doc)
        ELSE defaults

\* Revision A's module-level tenantId after the startup load; revision B
\* has no such variable (kept "").  A stored document written by
\* saveTokens holds every field, so it overrides each default; its
\* tenantId wins only when it is non-empty.
LoadTenantId(r, env, file) ==
  IF r # "A" THEN ""
  ELSE IF file.exists /\ file.ok
    THEN (IF file.doc.tenantId # "" THEN file.doc.tenantId ELSE env)
  ELSE env

\* A token-endpoint response body: a new access token and, when the
\* service rotates, a new refresh token.
TokenData(at, hasRt, rt) == [access_token |-> at, has_rt |-> hasRt, refresh_token |-> rt]

\* tokens = r.data: the response replaces the object.
ReplaceTokens(tok, data) ==
  Credential(data.access_token, IF data.has_rt THEN data.refresh_token ELSE NoRT, "", "")

\* A merge that takes the access token and keeps the old refresh token.
MergeAccessTokenOnly(tok, data) == [tok EXCEPT !.access_token = data.access_token]

\* tokens = { ...tokens, ...r.data }
MergeTokens(tok, data) ==
  [tok EXCEPT !.access_token = data.access_token,
              !.refresh_token = IF data.has_rt THEN data.refresh_token ELSE @]

\* fs.writeFileSync(TOKEN_PATH, JSON.stringify(tokens)) inside try/catch;
\* the file is held as the document its text denotes.  When the write
\* fails (ok FALSE) the error is logged and the file stays as it was.
saveTokens(file, tok, ok) ==
  IF ok THEN DiskFile(TRUE, TRUE, JSONparse(JSONstringify(tok))) ELSE file

(* ------------------------- the Finance Summary ------------------------ *)

\* Number.prototype.toFixed(2) of an amount held in cents: sign, whole
\* units and two decimals.
toFixed2(c) ==
  LET a == IF c < 0 THEN 0 - c ELSE c
  IN  [neg |-> c < 0, units |-> a \div 100, cents |-> a % 100]

\* An upstream document.  hasDue / hasCredit say whether AmountDue /
\* RemainingCredit is present; dueAt is the DueDate as a time, hasDueDate
\* FALSE standing for a missing DueDate (new Date(undefined) is an Invalid
\* Date, which compares false with everything).
Doc(number, hasDue, amountDue, hasCredit, remainingCredit, total, hasDueDate, dueAt, status) ==
  [number |-> number, hasDue |-> hasDue, AmountDue |-> amountDue,
   hasCredit |-> hasCredit, RemainingCredit |-> remainingCredit,
   Total |-> total, hasDueDate |-> hasDueDate, DueDate |-> dueAt, Status |-> status]

InvoiceDoc(number, due, total, dueAt, status) ==
  Doc(number, TRUE, due, FALSE, 0, total, TRUE, dueAt, status)

CreditDoc(number, credit, total, status) ==
  Doc(number, FALSE, 0, TRUE, credit, total, FALSE, 0, status)

\* d.AmountDue ?? d.RemainingCredit ?? 0
Balance(d) ==
  IF d.hasDue THEN d.AmountDue
  ELSE IF d.hasCredit THEN d.RemainingCredit
  ELSE 0

Row(d, type) ==
  [type |-> type, number |-> d.number, total |-> toFixed2(d.Total),
   balance |-> toFixed2(Balance(d))]

\* The accumulator pushDocs works on: the two running balances (in cents)
\* and the rows.
Acc(accountBal, overdueBal, rows) ==
  [accountBal |-> accountBal, overdueBal |-> overdueBal, rows |-> rows]

\* An iteration that counts a document towards the account balance only
\* once it is due.
PushDocDueOnly(r, d, type, today, acc) ==
  IF r = "B" /\ d.Status = "VOIDED" THEN acc
  ELSE LET balance == IF d.hasDueDate /\ d.DueDate < today THEN Balance(d) ELSE 0
       IN  Acc(IF type = "CreditNote" THEN acc.accountBal - balance
                                      ELSE acc.accountBal + balance,
               acc.overdueBal,
               Append(acc.rows, Row(d, type)))

\* One iteration of pushDocs' loop.  Revision B skips a voided document.
PushDoc(r, d, type, today, acc) ==
  IF r = "B" /\ d.Status = "VOIDED" THEN acc
  ELSE LET balance == Balance(d)
       IN  Acc(IF type = "CreditNote" THEN acc.accountBal - balance
                                      ELSE acc.accountBal + balance,
               IF d.hasDueDate /\ d.DueDate < today /\ balance > 0
                 THEN acc.overdueBal + balance ELSE acc.overdueBal,
               Append(acc.rows, Row(d, type)))

RECURSIVE pushDocs(_, _, _, _, _)
pushDocs(r, list, type, today, acc) ==
  IF list = <<>> THEN acc
  ELSE pushDocs(r, Tail(list), type, today, PushDoc(r, Head(list), type, today, acc))

\* The data object /finance builds and stores.  clientName and tenantName
\* are revision B's additions ("" in revision A).
Summary(accountBal, overdueBal, rows, asAt, clientName, tenantName) ==
  [accountBal |-> accountBal, overdueBal |-> overdueBal, rows |-> rows,
   asAt |-> asAt, clientName |-> clientName, tenantName |-> tenantName]

NoData == Summary(toFixed2(0), toFixed2(0), <<>>, 0, "", "")

BuildSummary(r, invoices, credits, today, contactName, tenantName) ==
  LET a1 == pushDocs(r, invoices, "Invoice", today, Acc(0, 0, <<>>))
      a2 == pushDocs(r, credits, "CreditNote", today, a1)
  IN  Summary(toFixed2(a2.accountBal), toFixed2(a2.overdueBal), a2.rows, today,
              IF r = "B" THEN contactName ELSE "",
              IF r = "B" THEN tenantName ELSE "")

(* ------------------------------ the cache ----------------------------- *)

\* new NodeCache({ stdTTL: 120 }), in seconds.
stdTTL == 120

CacheKeys == {"Acme", "c1"}

CacheEntry(has, t, data) == [has |-> has, t |-> t, data |-> data]

NoEntry == CacheEntry(FALSE, 0, NoData)

\* A cache whose entries never expire.
cacheGetForever(c, key, t) ==
  IF key \in CacheKeys /\ c[key].has THEN c[key] ELSE NoEntry

\* A cache that never has the key.
cacheGetMiss(c, key, t) == NoEntry

\* cache.get(key) at time t: the entry while it has not expired.
cacheGet(c, key, t) ==
  IF key \in CacheKeys /\ c[key].has /\ t - c[key].t < stdTTL THEN c[key] ELSE NoEntry

\* A cache that keeps the entry it has.
cacheSetKeepFirst(c, key, data, t) ==
  IF c[key].has THEN c ELSE [c EXCEPT ![key] = CacheEntry(TRUE, t, data)]

\* cache.set(key, data) at time t.
cacheSet(c, key, data, t) == [c EXCEPT ![key] = CacheEntry(TRUE, t, data)]

(* ------------------------------ requests ------------------------------ *)

\* The query of an inbound request.
Query(agentId, agentid, hmac, HMAC, area, contactId, contactName) ==
  [agentId |-> agentId, agentid |-> agentid, hmac |-> hmac, HMAC |-> HMAC,
   area |-> area, contactId |-> contactId, contactName |-> contactName]

\* A wrong signature of the right length: the digest with its first bit
\* flipped.
FlipFirst(sig) == [sig EXCEPT ![1] = 1 - @]

\* The /finance requests of the system model: signed correctly, signed
\* wrongly or unsigned, by area, by contact id, by both or by neither.
FinanceRequests ==
  { Query("a1", "", sig, <<>>, area, cid, "") :
      sig \in {Hmac("k1", "a1"), FlipFirst(Hmac("k1", "a1")), <<>>},
      area \in {"", "Acme"}, cid \in {"", "c1"} }

\* The /debug-hmac request of the system model.
DebugRequests == { Query("a1", "", Hmac("k1", "a1"), <<>>, "Acme", "", "") }

\* What the upstream listings may return.
InvoiceLists == { <<InvoiceDoc("INV-1", 4000, 10000, 0, "AUTHORISED")>> }

CreditLists == { <<CreditDoc("CN-1", 1000, 1000, "AUTHORISED")>> }

\* What the contact lookup may return: the first match's ContactID, or
\* "" for no match.
ContactResults == {"", "c1"}

\* The two listings a summary is built from.
Listings(invoices, credits) == [invoices |-> invoices, credits |-> credits]

NoListings == Listings(<<>>, <<>>)

\* A contact name and the filter sent for it (none yet).
Filter(name, sent, where) == [name |-> name, sent |-> sent, where |-> where]

NoFilter == Filter(<<>>, FALSE, <<>>)

(* ------------------------------- state -------------------------------- *)

VARIABLES
  rev,          \* the revision of the server that is running
  HMAC_SECRET,  \* process.env.HMAC_SECRET
  TENANT_ID,    \* process.env.TENANT_ID
  tokens,       \* the in-memory Credential
  tenantId,     \* revision A's module-level tenantId
  disk,         \* tokens.json
  cache,        \* the NodeCache
  now,          \* the clock, in seconds
  issued,       \* the number of the token the identity service issued last
  auths,        \* the number of the authorization it granted last
  lastAT,       \* the access token ensureToken returned last (0: none yet)
  fin,          \* the /finance handlers in flight
  cb,           \* the /auth/callback handler
  dbg,          \* the last /debug-hmac response
  hreq,         \* the pair of requests of the signature-check specification
  hres,         \* their results
  sumIn,        \* the listings of the summary specification
  sumOut,       \* the summaries built from them, with the time of each build
  writable,     \* whether tokens.json can be written
  confirmed,    \* history: an /auth/callback has answered with its confirmation
  exp,          \* the last export response
  flt,          \* the contact filter specification's name and filter
  fetchedFor    \* history: the tenant whose documents each cache entry was built from

credvars == <<tokens, tenantId, disk>>

upvars == <<issued, auths>>

envvars == <<rev, HMAC_SECRET, TENANT_ID, writable>>

fvars == <<hreq, hres, sumIn, sumOut, flt>>

hvars == <<fvars, confirmed, exp>>

vars == <<rev, HMAC_SECRET, TENANT_ID, tokens, tenantId, disk, cache, now,
          issued, auths, lastAT, fin, cb, dbg, hreq, hres, sumIn, sumOut,
          writable, confirmed, exp, flt, fetchedFor>>

\* The slots for concurrent /finance requests.
Procs == {1}

\* A /finance handler: where it is suspended, what it has computed so far,
\* its response once sent, and the effects it has had (ops).  reqContactId
\* is req.query.contactId as received; got is what the contact lookup
\* answered ("no-match", "match").
FinIdle ==
  [pc |-> "idle", valid |-> FALSE, reqContactId |-> "", key |-> "", contactId |-> "",
   contactName |-> "", got |-> "", listed |-> <<>>,
   sentRT |-> NoRT, accessToken |-> 0, issuedAT |-> 0, tenant |-> "", inv |-> <<>>,
   status |-> 0, err |-> "", hasBody |-> FALSE, body |-> NoData, ops |-> <<>>,
   sent |-> 0]

\* The /auth/callback handler; got is what the upstream answered last
\* ("rejected", "error", "empty", "listed"), data the body of the token
\* endpoint's answer (tokenResp.data) and list that of the connections
\* listing (tenants.data).
CbIdle ==
  [pc |-> "idle", code |-> "", got |-> "", data |-> TokenData(0, FALSE, NoRT),
   list |-> <<>>, status |-> 0, ops |-> <<>>]

\* The handler returns: its locals (the token it presented and got, the
\* tenant, the invoices) are gone.
Return(h) ==
  [h EXCEPT !.pc = "done", !.sentRT = NoRT, !.accessToken = 0, !.issuedAT = 0,
            !.tenant = "", !.listed = <<>>, !.inv = <<>>]

\* A catch that renders what it has.
CatchRenders(h, err, ops) ==
  [Return(h) EXCEPT !.status = 200, !.hasBody = TRUE, !.err = err, !.ops = ops]

\* res.status(s).send(...): the handler is finished, without a summary.
Respond(h, s, ops) == [Return(h) EXCEPT !.status = s, !.ops = ops, !.sent = @ + 1]

\* A catch that logs the error and sends nothing.
CatchSilent(h, err, ops) == [h EXCEPT !.pc = "hung", !.err = err, !.ops = ops]

\* An exception reaches the handler's catch: 500, whatever was thrown
\* (err names it).
Catch(h, err, ops) == [Respond(h, 500, ops) EXCEPT !.err = err]

\* res.render("finance", data)
Render(h, data, ops) ==
  [Return(h) EXCEPT !.status = 200, !.hasBody = TRUE, !.body = data, !.ops = ops,
                    !.sent = @ + 1]

\* The /auth/callback handler answers with status s.
CbRespond(h, s, got, ops) ==
  [h EXCEPT !.pc = "done", !.code = "", !.got = got, !.status = s, !.ops = ops]

(* ------------------------------ startup ------------------------------- *)

\* The state once the module has been loaded: the environment and
\* tokens.json are whatever the deployment holds, and the tokens object is
\* what the startup load makes of them.
SysInit(r, sec, env, file) ==
  /\ rev = r
  /\ HMAC_SECRET = sec
  /\ TENANT_ID = env
  /\ disk = file
  /\ tokens = LoadTokens(r, env, file)
  /\ tenantId = LoadTenantId(r, env, file)
  /\ cache = [k \in CacheKeys |-> NoEntry]
  /\ fetchedFor = [k \in CacheKeys |-> ""]
  /\ now = 0
  /\ issued = PriorIssue
  /\ auths = PriorIssue
  /\ lastAT = 0
  /\ fin = [p \in Procs |-> FinIdle]
  /\ cb = CbIdle
  /\ dbg = <<>>

Init ==
  /\ \E r \in Revs, sec \in {"", "k1"}, env \in {"", "t0"}, file \in StartFiles :
       SysInit(r, sec, env, file)
  /\ hreq = <<>>
  /\ hres = <<>>
  /\ sumIn = NoListings
  /\ sumOut = <<>>
  /\ writable = TRUE
  /\ confirmed = FALSE
  /\ exp = <<>>
  /\ flt = NoFilter

(* ------------------------- ensureToken & co. -------------------------- *)

\* A guard that lets the empty refresh token through.
HasRefreshTokenAlways(tok) == TRUE

\* ensureToken's guard: a refresh token is on record.
HasRefreshToken(tok) == tok.refresh_token # NoRT

\* An ensureToken that keeps using the access token it already holds.
ensureTokenCached(tok, data) ==
  LET merged == [tok EXCEPT !.access_token = IF @ = 0 THEN data.access_token ELSE @,
                            !.refresh_token = IF data.has_rt THEN data.refresh_token ELSE @]
  IN  [tokens |-> merged, ret |-> merged.access_token]

\* ensureToken after the exchange answered with data: the new tokens
\* object (which saveTokens then writes) and the access token returned.
ensureTokenDone(tok, data) ==
  LET merged == MergeTokens(tok, data)
  IN  [tokens |-> merged, ret |-> merged.access_token]

\* A reader that takes the listing's last element.
LastTenant(list) ==
  [ok |-> list # <<>>, t |-> IF list = <<>> THEN Tenant("", "") ELSE list[Len(list)]]

\* A listing read without checking that it lists anything.
FirstTenantUnchecked(list) ==
  [ok |-> TRUE, t |-> IF list = <<>> THEN Tenant("", "") ELSE list[1]]

\* tenants.data[0], after the check that the listing is not empty
\* (revision B has no check: reading tenantId of the missing element
\* throws, to the same effect).
FirstTenant(list) ==
  [ok |-> list # <<>>, t |-> IF list = <<>> THEN Tenant("", "") ELSE list[1]]

\* A commitment that records the tenant's id without its name.
CommitTenantIdOnly(tok, t) == [tok EXCEPT !.tenantId = t.tenantId]

\* ensureTenantId / the callback committing to a listed tenant.
CommitTenant(tok, t) == [tok EXCEPT !.tenantId = t.tenantId, !.tenantName = t.tenantName]

\* The first upstream call after the tokens and the tenant are known:
\* the contact lookup when only a name is known, else the invoice listing.
SendLookupOrInvoices(h, ops) ==
  IF h.contactId = "" /\ h.contactName # ""
    THEN [h EXCEPT !.pc = "contact", !.ops = Append(ops, "contacts")]
    ELSE [h EXCEPT !.pc = "invoices", !.ops = Append(ops, "invoices")]

(* ------------------------------ /finance ------------------------------ *)

\* Revision A's choice of contact id, contact name and cache key.
KeyOf(r, q) ==
  IF r = "A"
    THEN [contactId |-> q.contactId, contactName |-> Or(q.area, q.contactName),
          key |-> Or(q.contactId, Or(q.area, q.contactName))]
    ELSE [contactId |-> "", contactName |-> q.area, key |-> q.area]

\* What a cache hit renders: revision B overlays the current tenantName.
HitData(r, data, tok) ==
  IF r = "B" THEN [data EXCEPT !.tenantName = tok.tenantName] ELSE data

\* A handler that goes on whatever the signature check said.
FinanceOutcomeUnchecked(h, key, hit, tok) ==
  IF key = "" THEN "missing"
  ELSE IF hit THEN "hit"
  ELSE IF tok.refresh_token = NoRT THEN "notauthorised"
  ELSE "refresh"

\* How far GET /finance gets before its first await: h is the signature
\* check's result, key the cache key, hit whether the cache holds it.
FinanceOutcome(h, key, hit, tok) ==
  IF h.threw THEN "threw"
  ELSE IF ~h.valid THEN "unauthorized"
  ELSE IF key = "" THEN "missing"
  ELSE IF hit THEN "hit"
  ELSE IF ~HasRefreshToken(tok) THEN "notauthorised"
  ELSE "refresh"

\* GET /finance from its entry to its first await or its response.
FinanceStart(p, q) ==
  /\ fin[p].pc = "idle"
  /\ LET h  == validateHaloHmac(rev, HMAC_SECRET, q)
         k  == KeyOf(rev, q)
         me == [fin[p] EXCEPT !.valid = h.valid, !.reqContactId = q.contactId,
                              !.key = k.key,
                              !.contactId = k.contactId, !.contactName = k.contactName]
         cached == cacheGet(cache, k.key, now)
         go == FinanceOutcome(h, k.key, cached.has, tokens)
     IN  fin' = [fin EXCEPT ![p] =
           CASE go = "threw"         -> Catch(fin[p], "hmac", <<>>)
             [] go = "unauthorized"  -> Respond(fin[p], 401, <<>>)
             [] go = "missing"       -> Respond(me, 400, <<>>)
             [] go = "hit"           ->
                  Render(me, HitData(rev, cached.data, tokens), <<"cache.get">>)
             [] go = "notauthorised" -> Catch(me, "not-authorised", <<"cache.get">>)
             [] OTHER                ->
                  [me EXCEPT !.pc = "refresh", !.sentRT = tokens.refresh_token,
                             !.ops = <<"cache.get", "token.refresh">>]]
  /\ UNCHANGED <<envvars, credvars, cache, fetchedFor, now, upvars, lastAT, cb, dbg, hvars>>

\* The refresh exchange fails: ensureToken throws, the handler answers 500.
RefreshFails(p) ==
  /\ fin[p].pc = "refresh"
  /\ fin' = [fin EXCEPT ![p] = Catch(@, "exchange", @.ops)]
  /\ UNCHANGED <<envvars, credvars, cache, fetchedFor, now, upvars, lastAT, cb, dbg, hvars>>

\* The refresh exchange answers: ensureToken merges, saves and returns;
\* then ensureTenantId (revision A) and the next upstream call.
RefreshSucceeds(p, rotate) ==
  /\ fin[p].pc = "refresh"
  /\ issued < PriorIssue + MaxIssue
  /\ LET n    == issued + 1
         data == TokenData(n, rotate, RT(fin[p].sentRT.auth, n))
         done == ensureTokenDone(tokens, data)
         me   == [fin[p] EXCEPT !.accessToken = done.ret, !.issuedAT = n,
                                !.ops = Append(@, "saveTokens")]
     IN  /\ tokens' = done.tokens
         /\ disk' = saveTokens(disk, done.tokens, writable)
         /\ issued' = n
         /\ lastAT' = done.ret
         /\ fin' = [fin EXCEPT ![p] =
              IF rev = "B"
                THEN [me EXCEPT !.tenant = done.tokens.tenantId, !.pc = "contact",
                                !.ops = Append(me.ops, "contacts")]
              ELSE IF tenantId # ""
                THEN SendLookupOrInvoices([me EXCEPT !.tenant = tenantId], me.ops)
              ELSE [me EXCEPT !.pc = "tenants", !.ops = Append(me.ops, "connections")]]
  /\ UNCHANGED <<envvars, tenantId, cache, fetchedFor, now, auths, cb, dbg, hvars>>

\* ensureTenantId's /connections call fails.
TenantsFails(p) ==
  /\ fin[p].pc = "tenants"
  /\ fin' = [fin EXCEPT ![p] = Catch(@, "fetch", @.ops)]
  /\ UNCHANGED <<envvars, credvars, cache, fetchedFor, now, upvars, lastAT, cb, dbg, hvars>>

\* ensureTenantId's /connections call answers: it commits to the first
\* tenant listed and saves, or throws when none is listed.
TenantsAnswers(p, list) ==
  /\ fin[p].pc = "tenants"
  /\ LET first == FirstTenant(list)
         me == [fin[p] EXCEPT !.tenant = first.t.tenantId, !.listed = list,
                              !.ops = Append(@, "saveTokens")]
     IN  IF first.ok
           THEN /\ tenantId' = first.t.tenantId
                /\ tokens' = CommitTenant(tokens, first.t)
                /\ disk' = saveTokens(disk, CommitTenant(tokens, first.t), writable)
                /\ fin' = [fin EXCEPT ![p] = SendLookupOrInvoices(me, me.ops)]
           ELSE /\ fin' = [fin EXCEPT ![p] = Catch(@, "no-tenant", @.ops)]
                /\ UNCHANGED credvars
  /\ UNCHANGED <<envvars, cache, fetchedFor, now, upvars, lastAT, cb, dbg, hvars>>

\* The contact lookup fails: the handler answers 500.
ContactFails(p) ==
  /\ fin[p].pc = "contact"
  /\ fin' = [fin EXCEPT ![p] = Catch(@, "fetch", @.ops)]
  /\ UNCHANGED <<envvars, credvars, cache, fetchedFor, now, upvars, lastAT, cb, dbg, hvars>>

\* A lookup that found nothing is taken for one that found the caller's
\* own contact id.
NoMatchGoesOn(h) ==
  [h EXCEPT !.got = "no-match", !.pc = "invoices", !.ops = Append(@, "invoices")]

\* The lookup found no contact: 404.
NoMatch(h) == Respond([h EXCEPT !.got = "no-match"], 404, h.ops)

\* The contact lookup answers with its first match's ContactID (cid), or
\* with no match (cid = ""): the listings are asked for, or the handler
\* answers 404.
ContactAnswers(p, cid) ==
  /\ fin[p].pc = "contact"
  /\ fin' = [fin EXCEPT ![p] =
       IF cid = "" THEN NoMatch(@)
       ELSE [@ EXCEPT !.got = "match", !.contactId = cid, !.pc = "invoices",
                      !.ops = Append(@, "invoices")]]
  /\ UNCHANGED <<envvars, credvars, cache, fetchedFor, now, upvars, lastAT, cb, dbg, hvars>>

\* A failed listing that is asked for again.
ListingRetried(p) ==
  /\ fin[p].pc \in {"invoices", "credits"}
  /\ fin' = [fin EXCEPT ![p].ops = Append(@, IF fin[p].pc = "invoices" THEN "invoices"
                                              ELSE "creditnotes")]
  /\ UNCHANGED <<envvars, credvars, cache, fetchedFor, now, upvars, lastAT, cb, dbg, hvars>>

\* Either document listing fails.
ListingFails(p) ==
  /\ fin[p].pc \in {"invoices", "credits"}
  /\ fin' = [fin EXCEPT ![p] = Catch(@, "fetch", @.ops)]
  /\ UNCHANGED <<envvars, credvars, cache, fetchedFor, now, upvars, lastAT, cb, dbg, hvars>>

InvoicesSucceeds(p, list) ==
  /\ fin[p].pc = "invoices"
  /\ fin' = [fin EXCEPT ![p] = [@ EXCEPT !.inv = list, !.pc = "credits",
                                         !.ops = Append(@, "creditnotes")]]
  /\ UNCHANGED <<envvars, credvars, cache, fetchedFor, now, upvars, lastAT, cb, dbg, hvars>>

\* The credit-note listing answers: build the summary, store it, render it.
CreditsSucceeds(p, list) ==
  /\ fin[p].pc = "credits"
  /\ LET data == BuildSummary(rev, fin[p].inv, list, now, fin[p].contactName,
                              tokens.tenantName)
     IN  /\ cache' = cacheSet(cache, fin[p].key, data, now)
         /\ fetchedFor' = [fetchedFor EXCEPT ![fin[p].key] = fin[p].tenant]
         /\ fin' = [fin EXCEPT ![p] = Render(@, data, Append(@.ops, "cache.set"))]
  /\ UNCHANGED <<envvars, credvars, now, upvars, lastAT, cb, dbg, hvars>>

\* The response has gone out; the slot is free for the next request.
FinanceFinish(p) ==
  /\ fin[p].pc = "done"
  /\ fin' = [fin EXCEPT ![p] = FinIdle]
  /\ UNCHANGED <<envvars, credvars, cache, fetchedFor, now, upvars, lastAT, cb, dbg, hvars>>

(* ---------------------------- /auth/callback -------------------------- *)

\* GET /auth/callback up to its first await.  Revision A answers 400 when
\* the code is missing; revision B posts whatever it got.
CallbackStart(code) ==
  /\ cb.pc = "idle"
  /\ cb' = IF rev = "A" /\ code = ""
             THEN CbRespond(cb, 400, "", <<>>)
             ELSE [cb EXCEPT !.pc = "token", !.code = code, !.ops = <<"token.code">>]
  /\ UNCHANGED <<envvars, credvars, cache, fetchedFor, now, upvars, lastAT, fin, dbg, hvars>>

\* The token endpoint rejects the code (it always rejects a missing one).
CallbackTokenFails ==
  /\ cb.pc = "token"
  /\ cb' = CbRespond(cb, 500, "rejected", cb.ops)
  /\ UNCHANGED <<envvars, credvars, cache, fetchedFor, now, upvars, lastAT, fin, dbg, hvars>>

\* The token endpoint grants a new authorization: the tokens object is
\* merged in memory, and the tenants are asked for.
CallbackTokenSucceeds ==
  /\ cb.pc = "token"
  /\ cb.code # ""
  /\ issued < PriorIssue + MaxIssue
  /\ auths < PriorIssue + MaxAuth
  /\ LET n == issued + 1
         a == auths + 1
         data == TokenData(n, TRUE, RT(a, n))
     IN  /\ tokens' = MergeTokens(tokens, data)
         /\ issued' = n
         /\ auths' = a
         /\ cb' = [cb EXCEPT !.pc = "tenants", !.code = "", !.data = data,
                              !.ops = Append(@, "connections")]
  /\ UNCHANGED <<envvars, tenantId, disk, cache, fetchedFor, now, lastAT, fin, dbg, hvars>>

\* The /connections call fails: 500, nothing saved.
CallbackTenantsFails ==
  /\ cb.pc = "tenants"
  /\ cb' = CbRespond(cb, 500, "error", cb.ops)
  /\ UNCHANGED <<envvars, credvars, cache, fetchedFor, now, upvars, lastAT, fin, dbg, hvars>>

\* The /connections call answers: the callback commits to the first
\* tenant listed and saves; when none is listed revision A throws and
\* revision B fails on tenants.data[0].tenantId, and nothing is saved.
CallbackTenantsAnswers(list) ==
  /\ cb.pc = "tenants"
  /\ LET first == FirstTenant(list)
         got   == IF list = <<>> THEN "empty" ELSE "listed"
     IN  IF first.ok
           THEN /\ tenantId' = IF rev = "A" THEN first.t.tenantId ELSE tenantId
                /\ tokens' = CommitTenant(tokens, first.t)
                /\ disk' = saveTokens(disk, CommitTenant(tokens, first.t), writable)
                /\ cb' = CbRespond([cb EXCEPT !.list = list], 200, got,
                                   Append(cb.ops, "saveTokens"))
                /\ confirmed' = TRUE
           ELSE /\ cb' = CbRespond([cb EXCEPT !.list = list], 500, got, cb.ops)
                /\ UNCHANGED <<credvars, confirmed>>
  /\ UNCHANGED <<envvars, cache, fetchedFor, now, upvars, lastAT, fin, dbg, fvars, exp>>

CallbackFinish ==
  /\ cb.pc = "done"
  /\ cb' = CbIdle
  /\ UNCHANGED <<envvars, credvars, cache, fetchedFor, now, upvars, lastAT, fin, dbg, hvars>>

(* ------------------------------ exports ------------------------------ *)

\* parseFloat of a toFixed(2) string: the amount in cents.
parseFloat(s) ==
  IF s.neg THEN 0 - (s.units * 100 + s.cents) ELSE s.units * 100 + s.cents

\* cached.rows.reduce((a, r) => a + parseFloat(r[col]), 0)
RECURSIVE reduceRows(_, _)
reduceRows(rows, col) ==
  IF rows = <<>> THEN 0 ELSE parseFloat(Head(rows)[col]) + reduceRows(Tail(rows), col)

\* What an export puts into its document: the statement's rows and the
\* totals over them, under the client's (and, in the PDF, the tenant's)
\* name.
ExportDoc(clientName, tenantName, rows, totalAmount, totalBalance) ==
  [clientName |-> clientName, tenantName |-> tenantName, rows |-> rows,
   totalAmount |-> totalAmount, totalBalance |-> totalBalance]

NoExportDoc == ExportDoc("", "", <<>>, toFixed2(0), toFixed2(0))

ExportResponse(route, q, status, doc) ==
  [route |-> route, q |-> q, area |-> q.area, status |-> status, doc |-> doc]

\* The area exports are asked for (revision B caches by area only).
ExportAreas == {"Acme"}

\* The export requests: for either area, carrying a valid signature or
\* none at all.
ExportRequests ==
  { Query("a1", "", sig, <<>>, area, "", "") :
      sig \in {Hmac("k1", "a1"), <<>>}, area \in ExportAreas }

\* The export routes' common course: 400 without a cached summary for the
\* area, 500 when producing the document fails (ok FALSE), else the
\* document.
Export(route, q, ok, tenantName) ==
  LET cached == cacheGet(cache, q.area, now)
  IN  IF ~cached.has THEN ExportResponse(route, q, 400, NoExportDoc)
      ELSE IF ~ok THEN ExportResponse(route, q, 500, NoExportDoc)
      ELSE ExportResponse(route, q, 200,
             ExportDoc(cached.data.clientName, tenantName, cached.data.rows,
                       toFixed2(reduceRows(cached.data.rows, "total")),
                       toFixed2(reduceRows(cached.data.rows, "balance"))))

\* An export that puts the tenant's name into the cached object itself.
ExportPdfInPlace(q, ok) ==
  /\ rev = "B"
  /\ exp' = <<Export("pdf", q, ok, Or(tokens.tenantName, "Xero"))>>
  /\ cache' = [cache EXCEPT ![q.area].data.tenantName = Or(tokens.tenantName, "Xero")]
  /\ UNCHANGED <<envvars, credvars, now, upvars, lastAT, fin, cb, dbg,
                 fvars, confirmed, fetchedFor>>

\* GET /finance/export-pdf (revision B).
ExportPdf(q, ok) ==
  /\ rev = "B"
  /\ exp' = <<Export("pdf", q, ok, Or(tokens.tenantName, "Xero"))>>
  /\ UNCHANGED <<envvars, credvars, cache, fetchedFor, now, upvars, lastAT, fin, cb, dbg,
                 fvars, confirmed>>

\* GET /finance/export-excel (revision B).
ExportExcel(q, ok) ==
  /\ rev = "B"
  /\ exp' = <<Export("excel", q, ok, "")>>
  /\ UNCHANGED <<envvars, credvars, cache, fetchedFor, now, upvars, lastAT, fin, cb, dbg,
                 fvars, confirmed>>

(* ------------------------- /debug-hmac, clock ------------------------- *)

\* GET /debug-hmac: res.json(validateHaloHmac(req)).
DebugHmac(q) ==
  /\ dbg' = <<validateHaloHmac(rev, HMAC_SECRET, q)>>
  /\ UNCHANGED <<envvars, credvars, cache, fetchedFor, now, upvars, lastAT, fin, cb, hvars>>

Tick ==
  /\ now < MaxTicks * TickSeconds
  /\ now' = now + TickSeconds
  /\ UNCHANGED <<envvars, credvars, cache, fetchedFor, upvars, lastAT, fin, cb, dbg, hvars>>

(* --------------------------- specification ---------------------------- *)

Next ==
  \/ \E p \in Procs, q \in FinanceRequests : FinanceStart(p, q)
  \/ \E p \in Procs : RefreshFails(p)
  \/ \E p \in Procs, rotate \in BOOLEAN : RefreshSucceeds(p, rotate)
  \/ \E p \in Procs : TenantsFails(p)
  \/ \E p \in Procs, list \in TenantLists : TenantsAnswers(p, list)
  \/ \E p \in Procs : ContactFails(p)
  \/ \E p \in Procs, cid \in ContactResults : ContactAnswers(p, cid)
  \/ \E p \in Procs : ListingFails(p)
  \/ \E p \in Procs, list \in InvoiceLists : InvoicesSucceeds(p, list)
  \/ \E p \in Procs, list \in CreditLists : CreditsSucceeds(p, list)
  \/ \E p \in Procs : FinanceFinish(p)
  \/ \E code \in {"", "x"} : CallbackStart(code)
  \/ CallbackTokenFails
  \/ CallbackTokenSucceeds
  \/ CallbackTenantsFails
  \/ \E list \in TenantLists : CallbackTenantsAnswers(list)
  \/ CallbackFinish
  \/ \E q \in DebugRequests : DebugHmac(q)
  \/ Tick

Spec == Init /\ [][Next]_vars

(* --------------- the server without a usable tokens.json -------------- *)

\* The server started with tokens.json missing or unparsable, on a disk
\* that takes writes or on one that refuses them.
FaultInit ==
  /\ \E r \in Revs, env \in {"", "t0"}, file \in {NoFile, DiskFile(TRUE, FALSE, NoCredential)} :
       SysInit(r, "k1", env, file)
  /\ hreq = <<>>
  /\ hres = <<>>
  /\ sumIn = NoListings
  /\ sumOut = <<>>
  /\ writable \in BOOLEAN
  /\ confirmed = FALSE
  /\ exp = <<>>
  /\ flt = NoFilter

FaultSpec == FaultInit /\ [][Next]_vars

(* ------------------- the server with its export routes ---------------- *)

\* The whole server, export routes included, started with the secret set
\* and, on disk, a Credential that names no tenant yet.
ExportInit ==
  /\ \E r \in Revs, d \in {c \in StoredDocs : c.tenantId = ""} :
       SysInit(r, "k1", "", DiskFile(TRUE, TRUE, d))
  /\ hreq = <<>>
  /\ hres = <<>>
  /\ sumIn = NoListings
  /\ sumOut = <<>>
  /\ writable = TRUE
  /\ confirmed = FALSE
  /\ exp = <<>>
  /\ flt = NoFilter

ExportNext ==
  \/ Next
  \/ \E q \in ExportRequests, ok \in BOOLEAN : ExportPdf(q, ok)
  \/ \E q \in ExportRequests, ok \in BOOLEAN : ExportExcel(q, ok)

ExportSpec == ExportInit /\ [][ExportNext]_vars

(* ------------------ requests whose calls are answered ----------------- *)

\* Two /finance handlers, with every kind of request, started with or
\* without a Credential on disk; every upstream call a handler has
\* issued is eventually answered or fails.
LiveProcs == {1, 2}

LiveRequests ==
  { Query("a1", "", sig, <<>>, area, "", "") :
      sig \in {Hmac("k1", "a1"), <<>>}, area \in {"", "Acme"} }

LiveInit ==
  /\ rev \in Revs
  /\ HMAC_SECRET = "k1"
  /\ TENANT_ID = ""
  /\ \E file \in {NoFile} \cup {DiskFile(TRUE, TRUE, d) : d \in {c \in StoredDocs : c.tenantId = ""}} :
       /\ disk = file
       /\ tokens = LoadTokens(rev, "", file)
       /\ tenantId = LoadTenantId(rev, "", file)
  /\ cache = [k \in CacheKeys |-> NoEntry]
  /\ fetchedFor = [k \in CacheKeys |-> ""]
  /\ now = 0
  /\ issued = PriorIssue
  /\ auths = PriorIssue
  /\ lastAT = 0
  /\ fin = [p \in LiveProcs |-> FinIdle]
  /\ cb = CbIdle
  /\ dbg = <<>>
  /\ hreq = <<>>
  /\ hres = <<>>
  /\ sumIn = NoListings
  /\ sumOut = <<>>
  /\ writable = TRUE
  /\ confirmed = FALSE
  /\ exp = <<>>
  /\ flt = NoFilter

\* The call handler p is waiting for returns or fails.
Answer(p) ==
  \/ RefreshFails(p)
  \/ \E rotate \in BOOLEAN : RefreshSucceeds(p, rotate)
  \/ TenantsFails(p)
  \/ \E list \in TenantLists : TenantsAnswers(p, list)
  \/ ContactFails(p)
  \/ \E cid \in ContactResults : ContactAnswers(p, cid)
  \/ ListingFails(p)
  \/ \E list \in InvoiceLists : InvoicesSucceeds(p, list)
  \/ \E list \in CreditLists : CreditsSucceeds(p, list)

LiveNext ==
  \/ \E p \in LiveProcs, q \in LiveRequests : FinanceStart(p, q)
  \/ \E p \in LiveProcs : Answer(p)
  \/ \E p \in LiveProcs : FinanceFinish(p)
  \/ Tick

LiveSpec ==
  /\ LiveInit
  /\ [][LiveNext]_vars
  /\ \A p \in LiveProcs : WF_vars(Answer(p))

(* ---------------------- two concurrent requests ----------------------- *)

\* Two /finance requests in progress at once, each validly signed, by
\* area or by contact id, starting from a Credential on disk; the
\* identity service rotates the refresh token on every exchange and
\* honours only the one it issued last.
RaceProcs == {1, 2}

RaceRequests ==
  { Query("a1", "", Hmac("k1", "a1"), <<>>, "Acme", cid, "") : cid \in {"", "c1"} }

RaceInvoiceLists ==
  { <<InvoiceDoc("INV-1", 4000, 10000, 0, "AUTHORISED")>>,
    <<InvoiceDoc("INV-2", 2500, 2500, 0, "AUTHORISED")>> }

RaceCreditLists ==
  { <<CreditDoc("CN-1", 1000, 1000, "AUTHORISED")>>,
    <<CreditDoc("CN-2", 500, 500, "AUTHORISED")>> }

RaceInit ==
  /\ rev \in Revs
  /\ HMAC_SECRET = "k1"
  /\ TENANT_ID = ""
  /\ \E d \in StoredDocs :
       /\ disk = DiskFile(TRUE, TRUE, d)
       /\ tokens = LoadTokens(rev, "", DiskFile(TRUE, TRUE, d))
       /\ tenantId = LoadTenantId(rev, "", DiskFile(TRUE, TRUE, d))
  /\ cache = [k \in CacheKeys |-> NoEntry]
  /\ fetchedFor = [k \in CacheKeys |-> ""]
  /\ now = 0
  /\ issued = PriorIssue
  /\ auths = PriorIssue
  /\ lastAT = 0
  /\ fin = [p \in RaceProcs |-> FinIdle]
  /\ cb = CbIdle
  /\ dbg = <<>>
  /\ hreq = <<>>
  /\ hres = <<>>
  /\ sumIn = NoListings
  /\ sumOut = <<>>
  /\ writable = TRUE
  /\ confirmed = FALSE
  /\ exp = <<>>
  /\ flt = NoFilter

\* The token endpoint answers p's exchange: it accepts the refresh token
\* presented when that is the one it issued last, and rotates it.
RaceRefreshAnswers(p) ==
  IF fin[p].sentRT = RT(auths, issued)
    THEN RefreshSucceeds(p, TRUE)
    ELSE RefreshFails(p)

RaceNext ==
  \/ \E p \in RaceProcs, q \in RaceRequests : FinanceStart(p, q)
  \/ \E p \in RaceProcs : RaceRefreshAnswers(p)
  \/ \E p \in RaceProcs : TenantsFails(p)
  \/ \E p \in RaceProcs, list \in TenantLists : TenantsAnswers(p, list)
  \/ \E p \in RaceProcs : ContactFails(p)
  \/ \E p \in RaceProcs, cid \in ContactResults : ContactAnswers(p, cid)
  \/ \E p \in RaceProcs : ListingFails(p)
  \/ \E p \in RaceProcs, list \in RaceInvoiceLists : InvoicesSucceeds(p, list)
  \/ \E p \in RaceProcs, list \in RaceCreditLists : CreditsSucceeds(p, list)
  \/ \E p \in RaceProcs : FinanceFinish(p)

RaceSpec == RaceInit /\ [][RaceNext]_vars

(* ----------------- the contact filter as a function ------------------ *)

\* The characters contact names are made of: a letter, a double quote, an
\* apostrophe and an ampersand.
NameChars == {"a", "\"", "'", "&"}

\* Contact names: the non-empty strings of up to MaxName characters.
Names == UNION { [1..n -> NameChars] : n \in 1..MaxName }

\* str.replace(/"/g, '\\"'): a backslash before every double quote.
RECURSIVE replaceQuotes(_)
replaceQuotes(str) ==
  IF str = <<>> THEN <<>>
  ELSE (IF Head(str) = "\"" THEN <<"\\", "\"">> ELSE <<Head(str)>>)
         \o replaceQuotes(Tail(str))

\* encodeURIComponent: letters and the apostrophe stay; the double quote
\* and the ampersand become their percent escapes.
RECURSIVE encodeURIComponent(_)
encodeURIComponent(str) ==
  IF str = <<>> THEN <<>>
  ELSE << CASE Head(str) = "\"" -> "%22"
            [] Head(str) = "&" -> "%26"
            [] Head(str) = "\\" -> "%5C"
            [] OTHER -> Head(str) >>
         \o encodeURIComponent(Tail(str))

\* safeName (revision A) and encodedName (revision B).
SafeName(r, contactName) ==
  IF r = "A" THEN replaceQuotes(contactName) ELSE encodeURIComponent(contactName)

\* The text after "where=" in the URL given to axios.get:
\* Name=="${safeName}".
ContactsWhere(r, contactName) ==
  <<"Name==", "\"">> \o SafeName(r, contactName) \o <<"\"">>

FilterInit ==
  /\ \E r \in Revs : SysInit(r, "k1", "", NoFile)
  /\ hreq = <<>>
  /\ hres = <<>>
  /\ sumIn = NoListings
  /\ sumOut = <<>>
  /\ writable = TRUE
  /\ confirmed = FALSE
  /\ exp = <<>>
  /\ flt \in {Filter(n, FALSE, <<>>) : n \in Names}

\* The lookup's URL is built for the name.
FilterSend ==
  /\ ~flt.sent
  /\ flt' = Filter(flt.name, TRUE, ContactsWhere(rev, flt.name))
  /\ UNCHANGED <<envvars, credvars, cache, fetchedFor, now, upvars, lastAT, fin, cb, dbg,
                 hreq, hres, sumIn, sumOut, confirmed, exp>>

FilterNext == FilterSend

FilterSpec == FilterInit /\ [][FilterNext]_vars

(* ------------- the signature check as a function of a request --------- *)

\* The requests the signature check is tried on: every combination of the
\* parameters it reads and of those it does not.
HmacQueries ==
  { Query(a, b, s, t, area, cid, "") :
      a \in AgentIds \cup {""}, b \in {"", "a1"}, s \in Received,
      t \in {<<>>, Hmac("k1", "a1")}, area \in {"", "Acme"}, cid \in {"", "c1"} }

\* Two requests that carry the same agentId and hmac parameters.
HmacPairs ==
  { <<q1, q2>> \in HmacQueries \X HmacQueries :
      q1.agentId = q2.agentId /\ q1.hmac = q2.hmac }

HmacInit ==
  /\ \E r \in Revs, sec \in Secrets : SysInit(r, sec, "", NoFile)
  /\ hreq \in HmacPairs
  /\ hres = <<>>
  /\ sumIn = NoListings
  /\ sumOut = <<>>
  /\ writable = TRUE
  /\ confirmed = FALSE
  /\ exp = <<>>
  /\ flt = NoFilter

\* Both requests are put to validateHaloHmac.
HmacApply ==
  /\ hres = <<>>
  /\ hres' = <<validateHaloHmac(rev, HMAC_SECRET, hreq[1]),
               validateHaloHmac(rev, HMAC_SECRET, hreq[2])>>
  /\ UNCHANGED <<envvars, credvars, cache, fetchedFor, now, upvars, lastAT, fin, cb, dbg, hreq,
                 sumIn, sumOut, confirmed, exp, flt>>

HmacNext == HmacApply

HmacSpec == HmacInit /\ [][HmacNext]_vars

(* ------------- the summary as a function of the two listings --------- *)

\* The due dates of the documents tried: none, and one before, at and
\* after the first build.
DueDates == {30, 60, 90}

\* The invoices tried: AmountDue absent, zero or positive; DueDate absent
\* or one of DueDates; voided or not.
SumInvoiceDocs ==
  { d \in [number : {"INV-1"}, hasDue : BOOLEAN, AmountDue : {0, 4000},
           hasCredit : {FALSE}, RemainingCredit : {0}, Total : {10000},
           hasDueDate : BOOLEAN, DueDate : DueDates \cup {0},
           Status : {"AUTHORISED", "VOIDED"}] :
      /\ (~d.hasDue => d.AmountDue = 0)
      /\ (d.hasDueDate <=> d.DueDate # 0) }

\* The credit notes tried: RemainingCredit absent or positive; DueDate
\* absent or in the past; voided or not.
SumCreditDocs ==
  { d \in [number : {"CN-1"}, hasDue : {FALSE}, AmountDue : {0},
           hasCredit : BOOLEAN, RemainingCredit : {0, 1000}, Total : {1000},
           hasDueDate : BOOLEAN, DueDate : {0, 30},
           Status : {"AUTHORISED", "VOIDED"}] :
      /\ (d.hasCredit <=> d.RemainingCredit # 0)
      /\ (d.hasDueDate <=> d.DueDate # 0) }

SumInvoiceLists ==
  {<<>>} \cup {<<d>> : d \in SumInvoiceDocs}
         \cup {<<d, e>> : d \in SumInvoiceDocs, e \in SumInvoiceDocs}

SumCreditLists == {<<>>} \cup {<<d>> : d \in SumCreditDocs}

SumInit ==
  /\ \E r \in Revs : SysInit(r, "k1", "", NoFile)
  /\ hreq = <<>>
  /\ hres = <<>>
  /\ sumIn \in {Listings(i, c) : i \in SumInvoiceLists, c \in SumCreditLists}
  /\ sumOut = <<>>
  /\ writable = TRUE
  /\ confirmed = FALSE
  /\ exp = <<>>
  /\ flt = NoFilter

\* The summary is built from the listings, at the current time.
SumBuild ==
  /\ Len(sumOut) < 2
  /\ now > 0
  /\ sumOut' = Append(sumOut,
       [at |-> now,
        data |-> BuildSummary(rev, sumIn.invoices, sumIn.credits, now, "Acme",
                              tokens.tenantName)])
  /\ UNCHANGED <<envvars, credvars, cache, fetchedFor, now, upvars, lastAT, fin, cb, dbg,
                 hreq, hres, sumIn, confirmed, exp, flt>>

SumNext == SumBuild \/ Tick

SumSpec == SumInit /\ [][SumNext]_vars

(* ------------- the credential store as a function of a Credential ----- *)

\* The tenant id the upstream headers carry: revision A's module-level
\* tenantId, revision B's tokens.tenantId.
SelectedTenant(r, tid, tok) == IF r = "A" THEN tid ELSE tok.tenantId

\* The Credentials the store is tried on.
StoreCredentials ==
  { Credential(at, rt, tid, tname) :
      at \in 0..MaxIssue, rt \in {NoRT, RT(1, 1), RT(2, 2)},
      tid \in {"", "t1", "t2"}, tname \in {"", "Org One"} }

StoreInit ==
  /\ rev \in Revs
  /\ HMAC_SECRET = "k1"
  /\ TENANT_ID \in {"", "t0"}
  /\ tokens \in StoreCredentials
  /\ tenantId = LoadTenantId(rev, TENANT_ID, NoFile)
  /\ disk = NoFile
  /\ cache = [k \in CacheKeys |-> NoEntry]
  /\ fetchedFor = [k \in CacheKeys |-> ""]
  /\ now = 0
  /\ issued = PriorIssue
  /\ auths = PriorIssue
  /\ lastAT = 0
  /\ fin = [p \in Procs |-> FinIdle]
  /\ cb = CbIdle
  /\ dbg = <<>>
  /\ hreq = <<>>
  /\ hres = <<>>
  /\ sumIn = NoListings
  /\ sumOut = <<>>
  /\ writable = TRUE
  /\ confirmed = FALSE
  /\ exp = <<>>
  /\ flt = NoFilter

\* saveTokens, then a restart: the startup load of the file just written.
StoreRoundTrip ==
  /\ ~disk.exists
  /\ disk' = saveTokens(disk, tokens, writable)
  /\ tokens' = LoadTokens(rev, TENANT_ID, disk')
  /\ tenantId' = LoadTenantId(rev, TENANT_ID, disk')
  /\ UNCHANGED <<envvars, cache, fetchedFor, now, upvars, lastAT, fin, cb, dbg, hvars>>

StoreNext == StoreRoundTrip

StoreSpec == StoreInit /\ [][StoreNext]_vars

(* ======================= claims: the signature check ================== *)

\* The requests of the pair that validateHaloHmac has answered.
Answered == IF hres = <<>> THEN {} ELSE {1, 2}

\* sig with bit i flipped.
FlipBit(sig, i) == [sig EXCEPT ![i] = 1 - @]

\* C1.  With a secret configured and both agentId and hmac present, the
\* result is valid exactly when hmac equals the base64 HMAC-SHA256 of
\* agentId under the secret; in particular every single-bit mutation of
\* that signature is rejected, and so is every value of another length.
C1_ValidIffExpected ==
  \A i \in Answered :
    LET q == hreq[i]
        expected == Hmac(HMAC_SECRET, q.agentId)
    IN  (HMAC_SECRET # "" /\ q.agentId # "" /\ q.hmac # <<>>) =>
          /\ ~hres[i].threw
          /\ hres[i].valid <=> (q.hmac = expected)
          /\ (\E b \in 1..SigLen : q.hmac = FlipBit(expected, b)) => ~hres[i].valid
          /\ Len(q.hmac) # Len(expected) => ~hres[i].valid

\* C1 witness: a correctly signed request has been accepted (by revision
\* A's timingSafeEqual comparison).
C1_Witness ==
  /\ hres # <<>>
  /\ rev = "A"
  /\ HMAC_SECRET = "k2"
  /\ hreq[1].agentId = "a2"
  /\ hreq[1].hmac = Hmac("k2", "a2")
  /\ hres[1].valid

\* C2.  Without a secret every request is invalid with the reason
\* "Missing HMAC secret"; with a secret, a request that carries no agent
\* identifier (under either spelling) or no signature (under either
\* spelling) is invalid.
C2_MissingInputsInvalid ==
  \A i \in Answered :
    LET q == hreq[i]
    IN  /\ HMAC_SECRET = "" =>
             ~hres[i].valid /\ hres[i].reason = "Missing HMAC secret" /\ ~hres[i].threw
        /\ (HMAC_SECRET # "" /\ ((q.agentId = "" /\ q.agentid = "")
                                 \/ (q.hmac = <<>> /\ q.HMAC = <<>>))) =>
             ~hres[i].valid /\ ~hres[i].threw

\* C2 witness: no secret is configured and a request whose agentId and
\* hmac are both present (and match under the empty secret) was refused.
C2_Witness ==
  /\ hres # <<>>
  /\ HMAC_SECRET = ""
  /\ hreq[1].agentId = "a1"
  /\ hreq[1].hmac = Hmac("", "a1")
  /\ hres[1].reason = "Missing HMAC secret"
  /\ ~hres[1].valid

\* C3 as stated.  Two requests that agree on the agentId and hmac
\* parameters get the same valid / invalid result, whatever their other
\* query parameters are.
C3_SameAgentIdAndHmac ==
  hres # <<>> => hres[1].valid = hres[2].valid

\* C3 as amended.  Two requests that agree on agentId, agentid, hmac and
\* HMAC (the spellings under which the agent identifier and the signature
\* are read) get the same result, whatever area and contactId they carry.
C3_SameSignedInputs ==
  (hres # <<>> /\ hreq[1].agentid = hreq[2].agentid /\ hreq[1].HMAC = hreq[2].HMAC)
     => hres[1].valid = hres[2].valid

\* C3 witness: a validly signed request and one that carries another
\* area and contact id have both been accepted.
C3_Witness ==
  /\ hres # <<>>
  /\ hreq[1].area # hreq[2].area
  /\ hreq[1].contactId # hreq[2].contactId
  /\ hreq[1].agentid = hreq[2].agentid
  /\ hreq[1].HMAC = hreq[2].HMAC
  /\ hres[1].valid
  /\ hres[2].valid

(* ========================= claims: the system ========================= *)

\* No handler is suspended at an await.
Quiescent ==
  /\ \A p \in Procs : fin[p].pc \in {"idle", "done"}
  /\ cb.pc \in {"idle", "done"}

Range(seq) == {seq[i] : i \in DOMAIN seq}

CountOf(seq, x) == Cardinality({i \in DOMAIN seq : seq[i] = x})

\* Handler p takes up a request in this step.
Starts(p) == fin[p].pc = "idle" /\ fin'[p].pc # "idle"

\* Handler p's ensureToken returns an access token in this step.
RefreshOk(p) == fin[p].pc = "refresh" /\ fin'[p].pc \in {"tenants", "contact", "invoices"}

\* C4.  A /finance request whose signature check is not valid is answered
\* 401 in the step that takes it up, with no summary, without reading or
\* writing the cache, without an upstream call, and with the Credential
\* (in memory and on disk) and the upstream untouched; a /debug-hmac
\* request changes nothing but its own response.
C4_InvalidSignatureOnly401 ==
  [][ /\ \A p \in Procs :
           (Starts(p) /\ ~fin'[p].valid) =>
              /\ fin'[p].pc = "done"
              /\ fin'[p].status = 401
              /\ ~fin'[p].hasBody
              /\ fin'[p].ops = <<>>
              /\ UNCHANGED <<tokens, tenantId, disk, cache, issued, auths>>
      /\ dbg' # dbg => UNCHANGED <<tokens, tenantId, disk, cache, issued, auths, fin, cb>>
    ]_vars

\* C4 witness: a wrongly signed request was answered 401 while the cache
\* held a summary and a refresh token was on record.
C4_Witness ==
  /\ HMAC_SECRET = "k1"
  /\ fin[1].pc = "done"
  /\ fin[1].status = 401
  /\ cache["Acme"].has
  /\ now - cache["Acme"].t < stdTTL
  /\ tokens.refresh_token # NoRT

\* C5.  A validly signed cache miss reaches ensureToken; with no refresh
\* token on record it fails as not-authorised in that same step, having
\* issued no upstream request and changed neither the in-memory nor the
\* on-disk Credential.
C5_NoRefreshTokenNoExchange ==
  [][ \A p \in Procs :
        (Starts(p) /\ fin'[p].valid /\ fin'[p].key # "" /\ ~fin'[p].hasBody
           /\ tokens.refresh_token = NoRT) =>
           /\ fin'[p].pc = "done"
           /\ fin'[p].err = "not-authorised"
           /\ fin'[p].ops = <<"cache.get">>
           /\ UNCHANGED <<tokens, tenantId, disk, issued, auths>>
    ]_vars

\* C5 witness: a request has failed as not-authorised.
C5_Witness ==
  /\ fin[1].pc = "done"
  /\ fin[1].err = "not-authorised"
  /\ fin[1].valid
  /\ tokens.refresh_token = NoRT

\* C6.  A successful ensureToken has performed exactly one refresh
\* exchange and returns the access token that exchange issued: not the
\* one stored before, and not the one the previous ensureToken returned.
C6_UnconditionalRefresh ==
  [][ \A p \in Procs :
        RefreshOk(p) =>
           /\ issued' = issued + 1
           /\ CountOf(fin'[p].ops, "token.refresh") = 1
           /\ fin'[p].accessToken = fin'[p].issuedAT
           /\ fin'[p].accessToken = issued'
           /\ fin'[p].accessToken # tokens.access_token
           /\ fin'[p].accessToken # lastAT
    ]_vars

\* C6 witness: the second of two consecutive ensureToken calls has
\* returned (both tokens issued in this run came from refresh exchanges).
C6_Witness ==
  /\ fin[1].pc \in {"tenants", "contact", "invoices"}
  /\ auths = PriorIssue
  /\ issued = PriorIssue + 2
  /\ fin[1].accessToken = issued

C8_RefreshTokenKept ==
  [][ tokens.refresh_token # NoRT =>
        /\ tokens'.refresh_token # NoRT
        /\ tokens'.refresh_token.auth # tokens.refresh_token.auth =>
              (cb.pc = "token" /\ cb'.pc = "tenants")
    ]_vars

\* C9.  Whenever no handler is mid-execution, a credential document on
\* disk equals the in-memory Credential field for field.
C9_DiskMirrorsMemory ==
  (Quiescent /\ disk.exists /\ disk.ok) => disk.doc = tokens

\* C10.  When the token endpoint rejects the code, or the connections
\* listing returns no tenant, /auth/callback answers with an error, has
\* written nothing to the credential file, and leaves the selected tenant
\* id as it was.
C10_FailedCallbackWritesNothing ==
  [][ (cb.pc # "done" /\ cb'.pc = "done" /\ cb'.got \in {"rejected", "empty"}) =>
        /\ cb'.status = 500
        /\ "saveTokens" \notin Range(cb'.ops)
        /\ disk' = disk
        /\ tenantId' = tenantId
        /\ tokens'.tenantId = tokens.tenantId
    ]_vars

\* C10 witness: the code was exchanged, the listing came back empty, the
\* callback answered 500 and the tenant selected before is still selected.
C10_Witness ==
  /\ cb.pc = "done"
  /\ cb.got = "empty"
  /\ cb.status = 500
  /\ tokens.refresh_token.auth = PriorIssue + 1
  /\ tokens.tenantId = "t1"
  /\ disk.doc.refresh_token.auth = PriorIssue

\* A /auth/callback answers with the confirmation in this step.
CallbackConfirms == cb.pc = "tenants" /\ cb'.pc = "done" /\ cb'.status = 200

\* C11 as stated.  A /auth/callback that answers with the confirmation has
\* written a Credential made of the tokens the code exchange returned and
\* of the tenantId and tenantName of element 0 of the connections listing.
C11_CallbackPersistsExchangeTokens ==
  [][ CallbackConfirms =>
        /\ disk'.exists /\ disk'.ok
        /\ disk'.doc = Credential(cb'.data.access_token, cb'.data.refresh_token,
                                  cb'.list[1].tenantId, cb'.list[1].tenantName)
    ]_vars

\* C11, amended.  A /auth/callback that answers with the confirmation has
\* written the in-memory Credential, whose tenantId and tenantName (and
\* revision A's selected tenant id) are those of element 0 of the
\* connections listing, whatever else the listing holds and whatever
\* tenant was selected before; its tokens are those in memory when the
\* listing answered, which are the code exchange's whenever the identity
\* service has issued no token since that exchange.
C11_CallbackCommitsFirstTenant ==
  [][ CallbackConfirms =>
        /\ disk'.exists /\ disk'.ok
        /\ disk'.doc = tokens'
        /\ tokens'.access_token = tokens.access_token
        /\ tokens'.refresh_token = tokens.refresh_token
        /\ tokens'.tenantId = cb'.list[1].tenantId
        /\ tokens'.tenantName = cb'.list[1].tenantName
        /\ rev = "A" => tenantId' = cb'.list[1].tenantId
        /\ issued = cb'.data.access_token =>
              /\ tokens'.access_token = cb'.data.access_token
              /\ tokens'.refresh_token = cb'.data.refresh_token
    ]_vars

\* C11 witness: a callback has confirmed after a listing of two tenants,
\* and the Credential on disk carries the first one and the exchange's
\* tokens.
C11_Witness ==
  /\ cb.pc = "done"
  /\ cb.status = 200
  /\ Len(cb.list) = 2
  /\ disk.doc.tenantId = "t2"
  /\ disk.doc.tenantName = "Org Two"
  /\ disk.doc.refresh_token = cb.data.refresh_token
  /\ disk.doc.access_token = cb.data.access_token

(* ===================== claims: the credential store =================== *)

\* C12 as stated.  Writing a Credential with saveTokens and running the
\* startup load on the file yields a Credential equal to the written one
\* in every field, and the tenant id used for upstream headers equals the
\* reloaded tenantId.
C12_RoundTripSelectsReloaded ==
  [][ (~disk.exists /\ disk'.exists) =>
        /\ tokens' = tokens
        /\ SelectedTenant(rev, tenantId', tokens') = tokens'.tenantId
    ]_vars

\* C12, amended.  The reloaded Credential equals the written one in every
\* field; the tenant id used for upstream headers equals the reloaded
\* tenantId when that is not empty, and when it is empty revision A uses
\* the TENANT_ID variable of the environment instead.
C12_RoundTrip ==
  [][ (~disk.exists /\ disk'.exists) =>
        /\ disk'.ok
        /\ tokens' = tokens
        /\ \A i \in DOMAIN CredentialKeys :
             tokens'[CredentialKeys[i]] = tokens[CredentialKeys[i]]
        /\ SelectedTenant(rev, tenantId', tokens') =
             IF tokens.tenantId # "" THEN tokens.tenantId
             ELSE IF rev = "A" THEN TENANT_ID ELSE ""
    ]_vars

\* C12 witness: a Credential with a tenant was written and reloaded in a
\* deployment whose environment names another tenant; the reloaded one
\* is selected.
C12_Witness ==
  /\ disk.exists
  /\ rev = "A"
  /\ TENANT_ID = "t0"
  /\ tokens = Credential(2, RT(2, 2), "t1", "Org One")
  /\ disk.doc = tokens
  /\ tenantId = "t1"

(* ========================= claims: the summary ======================== *)

RECURSIVE SeqSum(_)
SeqSum(seq) == IF seq = <<>> THEN 0 ELSE Head(seq) + SeqSum(Tail(seq))

\* The list without its voided documents.
NonVoided(list) == SelectSeq(list, LAMBDA d : d.Status # "VOIDED")

\* A document's outstanding amount: AmountDue for an invoice,
\* RemainingCredit for a credit note, 0 when the field is absent.
Outstanding(d, type) ==
  IF type = "Invoice" THEN (IF d.hasDue THEN d.AmountDue ELSE 0)
  ELSE (IF d.hasCredit THEN d.RemainingCredit ELSE 0)

\* The sum of the outstanding amounts of the non-voided documents.
Net(list, type) ==
  SeqSum([i \in DOMAIN NonVoided(list) |-> Outstanding(NonVoided(list)[i], type)])

\* The sum of the outstanding amounts of the non-voided documents that
\* are due strictly before t and have a positive outstanding amount.
Overdue(list, type, t) ==
  SeqSum([i \in DOMAIN NonVoided(list) |->
            LET d == NonVoided(list)[i]
            IN  IF d.hasDueDate /\ d.DueDate < t /\ Outstanding(d, type) > 0
                  THEN Outstanding(d, type) ELSE 0])

\* C13.  accountBal is the sum of the outstanding amounts of the
\* non-voided invoices minus that of the non-voided credit notes, to two
\* decimals.
C13_AccountBalance ==
  \A i \in DOMAIN sumOut :
    sumOut[i].data.accountBal =
      toFixed2(Net(sumIn.invoices, "Invoice") - Net(sumIn.credits, "CreditNote"))

\* C14.  overdueBal is the sum of the outstanding amounts of exactly the
\* invoices due strictly before the time of the build with a positive
\* outstanding amount; credit notes contribute nothing.
C14_OverdueBalance ==
  \A i \in DOMAIN sumOut :
    sumOut[i].data.overdueBal = toFixed2(Overdue(sumIn.invoices, "Invoice", sumOut[i].at))

\* C15.  The summary built from the listings equals the summary built
\* from the same listings with their voided documents removed.
C15_VoidedIgnored ==
  \A i \in DOMAIN sumOut :
    sumOut[i].data = BuildSummary(rev, NonVoided(sumIn.invoices), NonVoided(sumIn.credits),
                                  sumOut[i].at, "Acme", tokens.tenantName)

StartsOnHit(p) ==
  /\ Starts(p)
  /\ fin'[p].valid
  /\ fin'[p].key \in CacheKeys
  /\ cache[fin'[p].key].has
  /\ now - cache[fin'[p].key].t < stdTTL

C18_CachePopulatedOnSuccessOnly ==
  [][ /\ \A p \in Procs :
           (fin[p].pc \in {"refresh", "tenants", "contact", "invoices", "credits"}
              /\ fin'[p].pc = "done" /\ fin'[p].err # "") =>
              /\ fin'[p].status = 500
              /\ ~fin'[p].hasBody
              /\ "cache.set" \notin Range(fin'[p].ops)
              /\ cache' = cache
      /\ cache' # cache =>
           \E p \in Procs :
              /\ fin[p].pc = "credits"
              /\ fin'[p].pc = "done"
              /\ fin'[p].status = 200
              /\ fin'[p].hasBody
              /\ cache' = [cache EXCEPT ![fin[p].key] = CacheEntry(TRUE, now, fin'[p].body)]
    ]_vars

\* C18 witness: the credit-note listing failed after the invoice listing
\* had answered; the request got a 500 and its key is not in the cache.
C18_Witness ==
  /\ fin[1].pc = "done"
  /\ fin[1].err = "fetch"
  /\ fin[1].status = 500
  /\ "creditnotes" \in Range(fin[1].ops)
  /\ ~cache[fin[1].key].has

\* C19.  A validly signed request that carries a contactId issues no
\* contact lookup, makes its listings for that id, and reads and stores
\* the summary under that id.
C19_ExplicitContactId ==
  \A p \in Procs :
    (fin[p].pc # "idle" /\ fin[p].valid /\ fin[p].reqContactId # "") =>
       /\ fin[p].key = fin[p].reqContactId
       /\ fin[p].contactId = fin[p].reqContactId
       /\ "contacts" \notin Range(fin[p].ops)
       /\ "cache.set" \in Range(fin[p].ops) =>
             /\ cache[fin[p].reqContactId].has
             /\ cache[fin[p].reqContactId].data = fin[p].body

\* C20.  When the contact lookup returns no match the request is answered
\* 404 in that step, without a summary; the lookup was made once, no
\* listing was asked for, and the cache is left as it was.
C20_NoContact404 ==
  [][ \A p \in Procs :
        (fin[p].pc = "contact" /\ fin'[p].got = "no-match") =>
           /\ fin'[p].pc = "done"
           /\ fin'[p].status = 404
           /\ ~fin'[p].hasBody
           /\ CountOf(fin'[p].ops, "contacts") = 1
           /\ Range(fin'[p].ops) \cap {"invoices", "creditnotes", "cache.set"} = {}
           /\ cache' = cache
    ]_vars

\* C20 witness: a lookup by name found nothing and the request got a 404,
\* with nothing in the cache under its key.
C20_Witness ==
  /\ fin[1].pc = "done"
  /\ fin[1].got = "no-match"
  /\ fin[1].status = 404
  /\ fin[1].key = "Acme"
  /\ ~cache["Acme"].has

(* ===================== claims: errors and ordering ==================== *)

\* C21.  A validly signed request that misses the cache while no refresh
\* token is on record is answered 401; a request that fails at an
\* upstream exchange or fetch is answered 500.
C21_NotAuthorisedIs401 ==
  [][ \A p \in Procs :
        /\ (Starts(p) /\ fin'[p].valid /\ fin'[p].key # "" /\ ~fin'[p].hasBody
              /\ tokens.refresh_token = NoRT) =>
              (fin'[p].pc = "done" /\ fin'[p].status = 401)
        /\ (fin[p].pc # "done" /\ fin'[p].pc = "done"
              /\ fin'[p].err \in {"exchange", "fetch"}) => fin'[p].status = 500
    ]_vars

C24_LengthMismatchInvalid ==
  \A i \in Answered :
    (hres[i].canonical # "" /\ Len(hres[i].received) # Len(hres[i].expected)) =>
       /\ ~hres[i].threw
       /\ ~hres[i].valid

\* C24 witness: the first revision has answered a request whose signature
\* is one symbol longer than a digest.
C24_Witness ==
  /\ hres # <<>>
  /\ rev = "A"
  /\ hres[1].canonical = "a1"
  /\ Len(hres[1].received) = SigLen + 1
  /\ Len(hres[1].expected) = SigLen
  /\ ~hres[1].valid

\* The order of a cache miss's calls, and the calls among a handler's
\* recorded operations.
CallOrder ==
  <<"token.refresh", "connections", "contacts", "invoices", "creditnotes", "cache.set">>

IsCall(op) == \E i \in 1..Len(CallOrder) : CallOrder[i] = op

RankOf(op) ==
  CASE op = "token.refresh" -> 1 [] op = "connections" -> 2 [] op = "contacts" -> 3
    [] op = "invoices" -> 4 [] op = "creditnotes" -> 5 [] op = "cache.set" -> 6

Calls(h) == SelectSeq(h.ops, IsCall)

\* C27.  The calls of one cache miss are made in the order refresh, tenant
\* listing, contact lookup, invoices, credit notes, cache write, each at
\* most once; the tenant listing only by the revision that has
\* ensureTenantId and the lookup only when resolving by name; a call is
\* made in the step in which the one before it answered successfully, and
\* the step that ends the request with a failure makes none.
C27_CallOrder ==
  [][ \A p \in Procs : fin'[p] # fin[p] =>
        LET was == Calls(fin[p])
            is  == Calls(fin'[p])
        IN  /\ \A i, j \in 1..Len(is) : i < j => RankOf(is[i]) < RankOf(is[j])
            /\ is # <<>> => is[1] = "token.refresh"
            /\ \A i \in 1..Len(is) :
                 /\ is[i] = "connections" => rev = "A" /\ i = 2
                 /\ is[i] = "contacts" => fin'[p].reqContactId = "" \/ rev = "B"
                 /\ is[i] = "invoices" => is[i - 1] \in {"token.refresh", "connections",
                                                         "contacts"}
                 /\ is[i] = "creditnotes" => is[i - 1] = "invoices"
                 /\ is[i] = "cache.set" => is[i - 1] = "creditnotes"
            /\ (fin[p].pc \notin {"idle", "done"} /\ fin'[p].pc # "idle") =>
                 /\ Len(is) <= Len(was) + 1
                 /\ \A i \in 1..Len(was) : is[i] = was[i]
                 /\ (fin'[p].pc = "done" /\ ~fin'[p].hasBody) => is = was
                 /\ fin'[p].pc # "done" => Len(is) = Len(was) + 1
    ]_vars

\* C27 witness: a request resolved by name, without a tenant on record,
\* has made all six calls.
C27_Witness ==
  /\ fin[1].pc = "done"
  /\ Calls(fin[1]) = CallOrder

\* C25.  ensureTenantId (first revision): with a tenant id known it
\* returns that id, asks the upstream nothing and leaves the tenant on
\* record as it is; with none known it asks for the connections, and on
\* the answer commits to element 0 (tenantId and tenantName, in memory and
\* on disk), or, when the request fails or nothing is listed, ends the
\* request with the Credential unchanged.
C25_EnsureTenantId ==
  [][ \A p \in Procs : rev = "A" =>
        /\ (RefreshOk(p) /\ tenantId # "") =>
              /\ fin'[p].tenant = tenantId
              /\ fin'[p].pc \in {"contact", "invoices"}
              /\ \A i \in 1..Len(fin'[p].ops) : fin'[p].ops[i] # "connections"
              /\ tenantId' = tenantId
              /\ tokens'.tenantId = tokens.tenantId
              /\ tokens'.tenantName = tokens.tenantName
        /\ (RefreshOk(p) /\ tenantId = "") =>
              /\ fin'[p].pc = "tenants"
              /\ fin'[p].ops[Len(fin'[p].ops)] = "connections"
              /\ tenantId' = ""
        /\ (fin[p].pc = "tenants" /\ fin'[p].pc \notin {"tenants", "done"}) =>
              /\ fin'[p].listed # <<>>
              /\ fin'[p].tenant = fin'[p].listed[1].tenantId
              /\ tenantId' = fin'[p].listed[1].tenantId
              /\ tokens' = [tokens EXCEPT !.tenantId = fin'[p].listed[1].tenantId,
                                          !.tenantName = fin'[p].listed[1].tenantName]
              /\ disk'.doc.tenantId = fin'[p].listed[1].tenantId
              /\ disk'.doc.tenantName = fin'[p].listed[1].tenantName
        /\ (fin[p].pc = "tenants" /\ fin'[p].pc = "done") =>
              /\ fin'[p].err \in {"fetch", "no-tenant"}
              /\ UNCHANGED credvars
    ]_vars

\* C25 witness: with no tenant known, the listing named two and the
\* request goes on for the first of them.
C25_Witness ==
  /\ rev = "A"
  /\ fin[1].pc \in {"contact", "invoices"}
  /\ Len(fin[1].listed) = 2
  /\ fin[1].tenant = fin[1].listed[1].tenantId
  /\ tenantId = fin[1].listed[1].tenantId
  /\ disk.doc.tenantName = fin[1].listed[1].tenantName

(* ------------------ claims: two concurrent requests ------------------- *)

RaceQuiescent == \A p \in RaceProcs : fin[p].pc \in {"idle", "done"}

\* C22.  Against an identity service that rotates the refresh token on
\* every exchange and honours only the one it issued last, whenever no
\* request is in progress the refresh token in memory and the one on disk
\* are the one the service honours.
C22_RefreshTokenAccepted ==
  RaceQuiescent =>
    /\ tokens.refresh_token = RT(auths, issued)
    /\ disk.exists /\ disk.ok
    /\ disk.doc.refresh_token = RT(auths, issued)

\* C22 witness: two misses each presented the stored refresh token; one
\* exchange was honoured and rotated it, the other was refused; both
\* requests have finished.
C22_Witness ==
  /\ \A p \in RaceProcs : fin[p].pc = "done" /\ "token.refresh" \in Range(fin[p].ops)
  /\ fin[1].status = 200 /\ fin[1].hasBody
  /\ fin[2].err = "exchange"
  /\ issued = PriorIssue + 1
  /\ tokens.refresh_token = RT(auths, issued)

\* C28.  A request that has both listings renders the summary built from
\* its own invoices and credit notes, and stores exactly that summary
\* under its key, whatever was there; the step changes no other entry and
\* no other request, and a response already made stays as it is.  So when
\* two misses for one key have both finished, the entry is the summary
\* one of them rendered.
C28_LastWriterWins ==
  [][ /\ \A p \in RaceProcs :
           /\ (fin[p].pc = "credits" /\ fin'[p].hasBody) =>
                 /\ \E c \in RaceCreditLists :
                      fin'[p].body = BuildSummary(rev, fin[p].inv, c, now,
                                                  fin[p].contactName, tokens.tenantName)
                 /\ cache'[fin[p].key] = CacheEntry(TRUE, now, fin'[p].body)
                 /\ \A k \in CacheKeys \ {fin[p].key} : cache'[k] = cache[k]
                 /\ \A q \in RaceProcs \ {p} : fin'[q] = fin[q]
           /\ (fin[p].pc = "done" /\ fin'[p].pc = "done") => fin'[p] = fin[p]
      /\ ( /\ \A p \in RaceProcs : fin'[p].pc = "done" /\ "cache.set" \in Range(fin'[p].ops)
           /\ fin'[1].key = fin'[2].key ) =>
              cache'[fin'[1].key].data \in {fin'[1].body, fin'[2].body}
    ]_vars

\* C28 witness: two misses for one key have each stored a summary, the
\* two summaries differ, and the entry is the second request's.
C28_Witness ==
  /\ \A p \in RaceProcs : fin[p].pc = "done" /\ "cache.set" \in Range(fin[p].ops)
  /\ fin[1].key = fin[2].key
  /\ fin[1].body # fin[2].body
  /\ fin[1].body.accountBal # fin[2].body.accountBal
  /\ cache[fin[1].key].data = fin[2].body

(* ------------------------ claims: the exports ------------------------- *)

\* C29.  The entry held for a key changes only in the step in which a
\* /finance request for that key, having missed the cache and gone
\* upstream, stores the summary it built; no other step (a cache hit, an
\* export, /debug-hmac, /auth/callback, a request for another key, the
\* clock) changes it.  An export changes nothing but its own response: no
\* upstream call, no change to the Credential in memory or on disk.
C29_CacheEntryImmutable ==
  [][ /\ \A k \in CacheKeys :
           cache'[k] # cache[k] =>
              \E p \in Procs :
                 /\ fin[p].pc = "credits"
                 /\ fin[p].key = k
                 /\ fin[p].ops[1] = "cache.get" /\ fin[p].ops[2] = "token.refresh"
                 /\ fin'[p].hasBody
                 /\ cache'[k].data = fin'[p].body
      /\ exp' # exp =>
           UNCHANGED <<tokens, tenantId, disk, issued, auths, lastAT, cache, fin, cb, dbg>>
    ]_vars

\* C29 witness: a summary was stored under a tenant name that the
\* Credential no longer carries, a PDF export of it has answered, and the
\* entry is still as stored.
C29_Witness ==
  /\ exp # <<>>
  /\ exp[1].route = "pdf"
  /\ exp[1].status = 200
  /\ cache[exp[1].area].has
  /\ exp[1].doc.rows = cache[exp[1].area].data.rows
  /\ exp[1].doc.tenantName # cache[exp[1].area].data.tenantName

(* --------------------- claims: credential file I/O -------------------- *)

\* The part of C26 about writes: on a disk that refuses writes, the
\* operations that call saveTokens complete all the same, with the tokens
\* object updated and the file as it was.
FailedWritesNonFatal ==
  [][ ~writable =>
        /\ \A p \in Procs :
             /\ RefreshOk(p) =>
                   /\ tokens'.access_token = fin'[p].issuedAT
                   /\ fin'[p].accessToken = fin'[p].issuedAT
                   /\ disk' = disk
             /\ (fin[p].pc = "tenants" /\ fin'[p].pc \notin {"tenants", "done"}) =>
                   /\ tokens'.tenantId = fin'[p].listed[1].tenantId
                   /\ disk' = disk
        /\ CallbackConfirms =>
             /\ tokens'.tenantId = cb'.list[1].tenantId
             /\ disk' = disk
    ]_vars

\* C26.  Started with tokens.json missing or unparsable, the server holds
\* no refresh token, and until an /auth/callback has answered with its
\* confirmation every validly signed /finance cache miss ends as
\* not-authorised; and a failed write in saveTokens does not keep the
\* operation from completing with the tokens object updated.
C26_IoFailuresNonFatal ==
  /\ tokens.refresh_token = NoRT
  /\ [][ \A p \in Procs :
           (Starts(p) /\ fin'[p].valid /\ fin'[p].key # "" /\ ~fin'[p].hasBody
              /\ ~confirmed) =>
                 (fin'[p].pc = "done" /\ fin'[p].err = "not-authorised")
       ]_vars
  /\ FailedWritesNonFatal

(* ---------------------- claims: the contact filter -------------------- *)

\* The value between the filter's delimiting quotes, as sent.
SentValue(where) == SubSeq(where, 3, Len(where) - 1)

\* A query string's parameter ends at the first raw ampersand.
RECURSIVE UpToAmpersand(_)
UpToAmpersand(text) ==
  IF text = <<>> \/ Head(text) = "&" THEN <<>>
  ELSE <<Head(text)>> \o UpToAmpersand(Tail(text))

\* Percent-decoding.
PercentDecode(text) ==
  [i \in DOMAIN text |->
     CASE text[i] = "%22" -> "\""
       [] text[i] = "%26" -> "&"
       [] text[i] = "%5C" -> "\\"
       [] OTHER -> text[i]]

\* Reading a quoted value from position i on: a backslash takes the next
\* character literally, a bare double quote ends the value, and the value
\* is well formed when that quote is the text's last character.
RECURSIVE ReadQuoted(_, _, _)
ReadQuoted(text, i, acc) ==
  IF i > Len(text) THEN [ok |-> FALSE, name |-> acc]
  ELSE IF text[i] = "\\" /\ i < Len(text)
    THEN ReadQuoted(text, i + 2, Append(acc, text[i + 1]))
  ELSE IF text[i] = "\"" THEN [ok |-> i = Len(text), name |-> acc]
  ELSE ReadQuoted(text, i + 1, Append(acc, text[i]))

\* What the filter sent denotes for the service that receives it.
Denoted(where) == ReadQuoted(PercentDecode(UpToAmpersand(where)), 3, <<>>)

\* C30.  The value sent inside Name=="..." is percent-encoded (it holds no
\* raw double quote or ampersand), every double quote of the name is
\* escaped in it, and the filter denotes equality with exactly the name.
C30_FilterDenotesName ==
  flt.sent =>
    /\ \A i \in DOMAIN SentValue(flt.where) : SentValue(flt.where)[i] \notin {"\"", "&"}
    /\ LET v == PercentDecode(SentValue(flt.where))
       IN  \A i \in DOMAIN v : v[i] = "\"" => (i > 1 /\ v[i - 1] = "\\")
    /\ Denoted(flt.where) = [ok |-> TRUE, name |-> flt.name]

\* C31.  Summary data goes out only in answer to a request that passes
\* validateHaloHmac: a /finance response with a summary belongs to a
\* request found valid, and an export that delivers a document was asked
\* for by a request that validateHaloHmac finds valid.
C31_SummaryOnlyToSigned ==
  /\ \A p \in Procs : fin[p].hasBody => fin[p].valid
  /\ \A i \in DOMAIN exp :
       exp[i].status = 200 => validateHaloHmac(rev, HMAC_SECRET, exp[i].q).valid

(* ------------------------- claims: the tenant ------------------------- *)

\* C32.  A summary /finance serves was computed from the documents of the
\* tenant that is selected when it is served: a hit returns an entry built
\* from the selected tenant's documents, and a miss renders a summary of
\* documents fetched for the tenant selected at that moment.
C32_ServedUnderSelectedTenant ==
  [][ \A p \in Procs :
        /\ (Starts(p) /\ fin'[p].hasBody) =>
              fetchedFor[fin'[p].key] = SelectedTenant(rev, tenantId, tokens)
        /\ (fin[p].pc = "credits" /\ fin'[p].hasBody) =>
              fin[p].tenant = SelectedTenant(rev, tenantId, tokens)
    ]_vars

(* ------------------------ claims: termination ------------------------- *)

\* C33.  A /finance handler sends at most one response, it has sent
\* exactly one when it is finished and none before, and, every call it
\* issues being answered, a handler that is waiting for the upstream
\* eventually finishes, whatever the other handler does.
C33_ExactlyOneResponse ==
  /\ [](\A p \in LiveProcs :
          /\ fin[p].sent <= 1
          /\ fin[p].pc \in {"idle", "done", "refresh", "tenants", "contact", "invoices",
                            "credits"}
          /\ (fin[p].pc = "done") <=> (fin[p].sent = 1))
  /\ \A p \in LiveProcs :
       (fin[p].pc \notin {"idle", "done"}) ~> (fin[p].pc = "done" /\ fin[p].sent = 1)

\* C33 witness: one handler has answered 500 after an upstream failure
\* while the other is still waiting for its credit notes.
C33_Witness ==
  /\ fin[1].pc = "done" /\ fin[1].err = "fetch" /\ fin[1].sent = 1
  /\ fin[2].pc = "credits"

(* ----------------------- claims: export totals ------------------------ *)

\* C34.  The total balance an export reports for the statement equals the
\* accountBal of the cached summary it was made from.
C34_ExportTotalIsAccountBal ==
  [][ \A i \in DOMAIN exp' :
        (exp' # exp /\ exp'[i].status = 200) =>
           exp'[i].doc.totalBalance = cache[exp'[i].area].data.accountBal
    ]_vars

====
